---- MODULE Spec2Model ----
(***************************************************************************)
(* Model of sql_analyzer.py: the SQLAnalyzer class (connect, close,        *)
(* measure_execution_time, get_explain_plan, analyze_performance,          *)
(* analyze) and main().                                                    *)
(*                                                                         *)
(* Python values are encoded so that values of different Python types are  *)
(* never compared with each other:                                         *)
(*   None            is  <<>>                                              *)
(*   a str or an int is  <<v>>                                             *)
(* An EXPLAIN row is a dict: a function whose DOMAIN is the set of keys    *)
(* the row has.  Strings are TLA+ strings, so the f-strings of the source  *)
(* are built with \o and the "in" operator is a real substring search.     *)
(***************************************************************************)
EXTENDS Integers, Sequences, FiniteSets, TLC

VARIABLES pc, conn, query, issued, explain_plan, idx, problems, suggestions,
          output, exc, exitStatus

vars == <<pc, conn, query, issued, explain_plan, idx, problems, suggestions,
          output, exc, exitStatus>>

(***************************************************************************)
(* Bounds                                                                  *)
(***************************************************************************)
MaxPlanLen == 2

(***************************************************************************)
(* Python values                                                           *)
(***************************************************************************)
None == <<>>

Val(v) == <<v>>

\* dict.get(key, default)
Get(row, key, default) == IF key \in DOMAIN row THEN row[key] ELSE default

\* bool(v) of an Optional[str]: None and '' are falsy
TruthyStr(v) == v # None /\ v[1] # ""

\* bool(v) of an Optional[int]: None and 0 are falsy
TruthyInt(v) == v # None /\ v[1] # 0

\* sub in s, for two str
Contains(s, sub) ==
    \E i \in 1..(Len(s) - Len(sub) + 1) : SubSeq(s, i, i + Len(sub) - 1) = sub

\* f"{v}" of an Optional[str]
Fmt(v) == IF v = None THEN "None" ELSE v[1]

Pad3(n) ==
    IF n < 10 THEN "00" \o ToString(n)
    ELSE IF n < 100 THEN "0" \o ToString(n)
    ELSE ToString(n)

RECURSIVE FmtComma(_)
\* f"{n:,}" of a non-negative int
FmtComma(n) ==
    IF n < 1000 THEN ToString(n)
    ELSE FmtComma(n \div 1000) \o "," \o Pad3(n % 1000)

(***************************************************************************)
(* Inputs: the rows the server can answer an EXPLAIN with                  *)
(***************************************************************************)
Fields == <<"table", "type", "key", "Extra", "rows">>

Absent == <<>>

Has(v) == <<v>>

\* A row dict; each argument is Absent (the row has no such key) or Has(value)
MkRow(t, ty, k, e, r) ==
    LET args == <<t, ty, k, e, r>>
        present == {i \in 1..5 : args[i] # Absent}
    IN [f \in {Fields[i] : i \in present} |->
            args[CHOOSE i \in present : Fields[i] = f][1]]

\* every access type against key present / NULL, and a row without 'type' / 'key'
AccessRows ==
    {MkRow(Has(Val("t1")), Has(Val(ty)), Has(k), Has(Val("Using where")), Has(Val(20))) :
        ty \in {"ALL", "index", "ref"}, k \in {None, Val("idx")}}
    \cup {MkRow(Has(Val("t1")), Absent, Absent, Has(Val("")), Has(Val(20)))}

\* the Extra column: missing, NULL, several annotations, an annotation in another case
ExtraRows ==
    {MkRow(Has(Val("orders")), Has(Val("ref")), Has(Val("idx_customer")), e, Has(Val(20))) :
        e \in {Absent, Has(None), Has(Val("Using filesort, Using temporary")),
               Has(Val("Using index; using filesort"))}}

\* the rows column around the two thresholds
CountRows ==
    {MkRow(Has(Val("a")), Has(Val("ref")), Has(Val("k")), Has(Val("")), r) :
        r \in {Absent, Has(None), Has(Val(1000)), Has(Val(1001)),
               Has(Val(10000)), Has(Val(10001))}}

\* the table column: missing, NULL, named; on a row on which many rules fire
TableRows ==
    {MkRow(t, Has(Val("ALL")), Has(None),
           Has(Val("Using where; Using temporary; Using filesort")), Has(Val(50000))) :
        t \in {Absent, Has(None), Has(Val("users"))}}

PlanRows == AccessRows \cup ExtraRows \cup CountRows \cup TableRows

RECURSIVE SeqsUpTo(_, _)
SeqsUpTo(S, n) ==
    IF n = 0 THEN {<<>>}
    ELSE LET shorter == SeqsUpTo(S, n - 1)
         IN shorter \cup {Append(p, r) : p \in {q \in shorter : Len(q) = n - 1}, r \in S}

Plans == SeqsUpTo(PlanRows, MaxPlanLen)

Queries == {"SELECT * FROM users", "SELECT 1"}

NotExited == 0 - 1

(***************************************************************************)
(* analyze_performance: locals of the loop body                            *)
(***************************************************************************)
row == explain_plan[idx]

table_name == Get(row, "table", Val("unknown"))

type_value == Get(row, "type", Val(""))

key_value == Get(row, "key", None)

extra == Get(row, "Extra", Val(""))

rows == Get(row, "rows", Val(0))

\* Variant: list.insert(0, ...) instead of list.append(...)
AppendPairFront(p, s) ==
    /\ problems' = <<p>> \o problems
    /\ suggestions' = <<s>> \o suggestions

\* problems.append(p); suggestions.append(s)
AppendPair(p, s) ==
    /\ problems' = Append(problems, p)
    /\ suggestions' = Append(suggestions, s)

Step(cond, p, s, next) ==
    /\ IF cond THEN AppendPair(p, s) ELSE UNCHANGED <<problems, suggestions>>
    /\ pc' = next
    /\ UNCHANGED <<conn, query, issued, explain_plan, idx, output, exc, exitStatus>>

\* for idx, row in enumerate(explain_plan)
ForRow ==
    /\ pc = "for"
    /\ IF idx < Len(explain_plan)
          THEN idx' = idx + 1 /\ pc' = "R1"
          ELSE idx' = idx /\ pc' = "G1"
    /\ UNCHANGED <<conn, query, issued, explain_plan, problems, suggestions,
                   output, exc, exitStatus>>

R1Cond == type_value = Val("ALL")

R1 ==
    /\ pc = "R1"
    /\ Step(R1Cond,
            "Full Table Scan on table '" \o Fmt(table_name) \o "'",
            "A full table scan was detected on table '" \o Fmt(table_name) \o "'. "
              \o "Consider adding an index on the column(s) used in your WHERE or ON clauses.",
            "R2")

\* Variant: the access-type guard of the second rule is dropped
R2CondNoType == key_value = None

R2Cond == key_value = None /\ type_value \notin {Val("ALL"), Val("index")}

R2 ==
    /\ pc = "R2"
    /\ Step(R2Cond,
            "No index used for table '" \o Fmt(table_name) \o "'",
            "The query did not use an index for table '" \o Fmt(table_name) \o "'. "
              \o "Review your WHERE clause and consider adding an appropriate index.",
            "R3")

R3Cond == TruthyStr(extra) /\ Contains(extra[1], "Using filesort")

R3 ==
    /\ pc = "R3"
    /\ Step(R3Cond,
            "Using filesort for table '" \o Fmt(table_name) \o "'",
            "The query is using a filesort operation on table '" \o Fmt(table_name) \o "'. "
              \o "Consider adding an index on the column(s) in your ORDER BY clause.",
            "R4")

\* Variant: the fourth rule written as the elif of the third
R4CondElif == ~R3Cond /\ TruthyStr(extra) /\ Contains(extra[1], "Using temporary")

R4Cond == TruthyStr(extra) /\ Contains(extra[1], "Using temporary")

R4 ==
    /\ pc = "R4"
    /\ Step(R4Cond,
            "Using temporary table for '" \o Fmt(table_name) \o "'",
            "The query is creating a temporary table for '" \o Fmt(table_name) \o "'. "
              \o "This is often caused by GROUP BY or UNION. Review your query logic or "
              \o "ensure columns in GROUP BY are indexed.",
            "R5")

R5Cond == TruthyStr(extra) /\ Contains(extra[1], "Using where") /\ key_value = None

R5 ==
    /\ pc = "R5"
    /\ Step(R5Cond,
            "Unindexed WHERE clause on table '" \o Fmt(table_name) \o "'",
            "The WHERE clause on table '" \o Fmt(table_name) \o "' is not using an index. "
              \o "This will significantly slow down the query. Add an index on the filtered columns.",
            "R6")

R6Cond == TruthyInt(rows) /\ rows[1] > 10000

R6 ==
    /\ pc = "R6"
    /\ Step(R6Cond,
            "Large number of rows scanned (" \o FmtComma(rows[1]) \o ") on table '"
              \o Fmt(table_name) \o "'",
            "Table '" \o Fmt(table_name) \o "' is scanning " \o FmtComma(rows[1]) \o " rows. "
              \o "This indicates a potential performance bottleneck. "
              \o "Consider adding more selective indexes or refining your WHERE conditions.",
            "for")

first_table_rows == Get(explain_plan[1], "rows", Val(0))

\* Variant: len(explain_plan) > 0
G1CondAnyLen ==
    /\ Len(explain_plan) > 0
    /\ TruthyInt(first_table_rows)
    /\ first_table_rows[1] > 1000

G1Cond ==
    /\ Len(explain_plan) > 1
    /\ TruthyInt(first_table_rows)
    /\ first_table_rows[1] > 1000

G1 ==
    /\ pc = "G1"
    /\ Step(G1Cond,
            "Potential suboptimal join order",
            "The first table in the join order scans " \o FmtComma(first_table_rows[1])
              \o " rows. "
              \o "Consider reordering tables in your JOIN to start with the most selective table.",
            "G2")

FallbackMsg == "No obvious performance issues detected. Query appears to be well-optimized."

\* Variant: the fallback suggestion appended unconditionally
G2CondAlways == TRUE

\* Variant: the fallback suggestion only for an empty plan
G2CondEmptyPlan == explain_plan = <<>>

G2Cond == problems = <<>>

\* if not problems: suggestions.append(...); return problems, suggestions
G2 ==
    /\ pc = "G2"
    /\ suggestions' = IF G2Cond THEN Append(suggestions, FallbackMsg) ELSE suggestions
    /\ pc' = "evaluated"
    /\ UNCHANGED <<conn, query, issued, explain_plan, idx, problems, output, exc, exitStatus>>

(***************************************************************************)
(* The rule engine alone: analyze_performance applied to any plan          *)
(***************************************************************************)
InitEval ==
    /\ pc = "for"
    /\ conn = "open"
    /\ query \in Queries
    /\ issued = <<query, "EXPLAIN " \o query>>
    /\ explain_plan \in Plans
    /\ idx = 0
    /\ problems = <<>>
    /\ suggestions = <<>>
    /\ output = <<>>
    /\ exc = "none"
    /\ exitStatus = NotExited

NextEval == ForRow \/ R1 \/ R2 \/ R3 \/ R4 \/ R5 \/ R6 \/ G1 \/ G2

SpecEval == InitEval /\ [][NextEval]_vars

(***************************************************************************)
(* The whole program: main, connect, analyze, close                        *)
(***************************************************************************)
ConnectErrorMsg == "Error connecting to MySQL database"

AnalysisErrorMsg == "Error during analysis"

Report == "SQL Query Performance Analysis Report"

\* analyzer = SQLAnalyzer(...): self.connection = None
Init ==
    /\ pc = "main"
    /\ conn = "none"
    /\ query \in Queries
    /\ issued = <<>>
    /\ explain_plan = <<>>
    /\ idx = 0
    /\ problems = <<>>
    /\ suggestions = <<>>
    /\ output = <<>>
    /\ exc = "none"
    /\ exitStatus = NotExited

\* if not analyzer.connect(): sys.exit(1)
connect ==
    /\ pc = "main"
    /\ \/ /\ conn' = "open"
          /\ pc' = "measure"
          /\ UNCHANGED <<output, exitStatus>>
       \/ /\ conn' = conn
          /\ output' = Append(output, ConnectErrorMsg)
          /\ exitStatus' = 1
          /\ pc' = "exited"
    /\ UNCHANGED <<query, issued, explain_plan, idx, problems, suggestions, exc>>

\* cursor.execute raising mysql.connector.Error; the server may be gone
RaiseError ==
    /\ exc' = "Error"
    /\ conn' \in {"open", "lost"}
    /\ pc' = "except"

\* cursor.execute(query); cursor.fetchall()
measure_execution_time ==
    /\ pc = "measure"
    /\ issued' = Append(issued, query)
    /\ \/ /\ pc' = "explain"
          /\ UNCHANGED <<conn, exc>>
       \/ RaiseError
    /\ UNCHANGED <<query, explain_plan, idx, problems, suggestions, output, exitStatus>>

\* Variant: the separating blank is missing
ExplainQueryNoBlank(q) == "EXPLAIN" \o q

\* explain_query = f"EXPLAIN {query}"
ExplainQuery(q) == "EXPLAIN " \o q

\* cursor.execute(explain_query); explain_results = cursor.fetchall()
get_explain_plan ==
    /\ pc = "explain"
    /\ issued' = Append(issued, ExplainQuery(query))
    /\ \/ /\ explain_plan' \in Plans
          /\ pc' = "for"
          /\ UNCHANGED <<conn, exc>>
       \/ /\ RaiseError
          /\ UNCHANGED explain_plan
    /\ UNCHANGED <<query, idx, problems, suggestions, output, exitStatus>>

\* Variant: sys.exit(1) ends the process without running the finally clause
analyze_except_NoFinally ==
    /\ pc = "except"
    /\ output' = Append(output, AnalysisErrorMsg)
    /\ exc' = "SystemExit"
    /\ exitStatus' = 1
    /\ pc' = "exited"
    /\ UNCHANGED <<conn, query, issued, explain_plan, idx, problems, suggestions>>

\* Variant: the handler prints the diagnostic and returns normally
analyze_except_Swallow ==
    /\ pc = "except"
    /\ output' = Append(output, AnalysisErrorMsg)
    /\ exc' = "none"
    /\ pc' = "finally"
    /\ UNCHANGED <<conn, query, issued, explain_plan, idx, problems, suggestions, exitStatus>>

\* except Error as e: print(...); sys.exit(1)
analyze_except ==
    /\ pc = "except"
    /\ output' = Append(output, AnalysisErrorMsg)
    /\ exc' = "SystemExit"
    /\ pc' = "finally"
    /\ UNCHANGED <<conn, query, issued, explain_plan, idx, problems, suggestions, exitStatus>>

\* format_rich_output / format_plain_output; an error that is not a
\* mysql.connector.Error (an encoding error of print, say) is not caught
format_output ==
    /\ pc = "evaluated"
    /\ \/ /\ output' = Append(output, Report)
          /\ exc' = exc
       \/ /\ output' = output
          /\ exc' = "Other"
    /\ pc' = "finally"
    /\ UNCHANGED <<conn, query, issued, explain_plan, idx, problems, suggestions, exitStatus>>

\* finally: analyzer.close(); then the interpreter exits
close ==
    /\ pc = "finally"
    /\ conn' = IF conn # "none" /\ conn = "open" THEN "closed" ELSE conn
    /\ exitStatus' = IF exc = "none" THEN 0 ELSE 1
    /\ pc' = "exited"
    /\ UNCHANGED <<query, issued, explain_plan, idx, problems, suggestions, output, exc>>

Next ==
    \/ connect
    \/ measure_execution_time
    \/ get_explain_plan
    \/ ForRow \/ R1 \/ R2 \/ R3 \/ R4 \/ R5 \/ R6 \/ G1 \/ G2
    \/ format_output
    \/ analyze_except
    \/ close

Spec == Init /\ [][Next]_vars

(***************************************************************************)
(* Properties.  The rule conditions below are written on the plan row as   *)
(* the specification words them, not through the locals of the loop.       *)
(***************************************************************************)
HasField(r, f) == f \in DOMAIN r /\ r[f] # None

ExtraHas(r, phrase) == HasField(r, "Extra") /\ Contains(r["Extra"][1], phrase)

AccessIs(r, types) == HasField(r, "type") /\ r["type"][1] \in types

Fires(k, r) ==
    CASE k = 1 -> AccessIs(r, {"ALL"})
      [] k = 2 -> ~HasField(r, "key") /\ ~AccessIs(r, {"ALL", "index"})
      [] k = 3 -> ExtraHas(r, "Using filesort")
      [] k = 4 -> ExtraHas(r, "Using temporary")
      [] k = 5 -> ExtraHas(r, "Using where") /\ ~HasField(r, "key")
      [] k = 6 -> HasField(r, "rows") /\ r["rows"][1] > 10000

JoinOrderFires ==
    /\ Len(explain_plan) > 1
    /\ HasField(explain_plan[1], "rows")
    /\ explain_plan[1]["rows"][1] > 1000

JoinOrderProblem == "Potential suboptimal join order"

ProblemPrefix ==
    << "Full Table Scan on table '",
       "No index used for table '",
       "Using filesort for table '",
       "Using temporary table for '",
       "Unindexed WHERE clause on table '",
       "Large number of rows scanned (",
       "Potential suboptimal join order" >>

SuggestionPrefix ==
    << "A full table scan was detected on table '",
       "The query did not use an index for table '",
       "The query is using a filesort operation on table '",
       "The query is creating a temporary table for '",
       "The WHERE clause on table '",
       "Table '",
       "The first table in the join order scans " >>

HasPrefix(s, p) == Len(s) >= Len(p) /\ SubSeq(s, 1, Len(p)) = p

\* the rule (1..6, 7 for the join-order rule) a text comes from; 0 if none
KindOf(text, prefixes) ==
    IF \E k \in 1..7 : HasPrefix(text, prefixes[k])
       THEN CHOOSE k \in 1..7 : HasPrefix(text, prefixes[k])
       ELSE 0

Kinds(texts, prefixes) == [j \in 1..Len(texts) |-> KindOf(texts[j], prefixes)]

CountKind(texts, prefixes, k) ==
    Cardinality({j \in 1..Len(texts) : KindOf(texts[j], prefixes) = k})

RulePcs == <<"R1", "R2", "R3", "R4", "R5", "R6">>

InRow == \E k \in 1..6 : pc = RulePcs[k]

\* how many of the rules R1..R6 have been applied to row i so far
RulesDone(i) ==
    IF i < idx THEN 6
    ELSE IF i > idx THEN 0
    ELSE IF InRow THEN (CHOOSE k \in 1..6 : pc = RulePcs[k]) - 1
    ELSE 6

JoinOrderDone == pc \in {"G2", "evaluated", "finally", "exited"}

FiredOn(r, upto) == SelectSeq(<<1, 2, 3, 4, 5, 6>>, LAMBDA k : k <= upto /\ Fires(k, r))

RECURSIVE FiredUpTo(_)
FiredUpTo(n) ==
    IF n = 0 THEN <<>>
    ELSE FiredUpTo(n - 1) \o FiredOn(explain_plan[n], RulesDone(n))

ExpectedKinds ==
    FiredUpTo(Len(explain_plan))
      \o (IF JoinOrderDone /\ JoinOrderFires THEN <<7>> ELSE <<>>)

\* C1 (pairing invariant): when analyze_performance returns, suggestions has
\* as many entries as problems if problems is non-empty, and exactly one
\* entry if problems is empty.
PairingInvariant ==
    pc = "evaluated" =>
        IF problems = <<>>
           THEN Len(suggestions) = 1
           ELSE Len(suggestions) = Len(problems)

PairingWitness ==
    /\ pc = "evaluated"
    /\ Len(explain_plan) = 2
    /\ problems = <<>>
    /\ Len(suggestions) = 1

\* C2 (rule independence): at every point of the evaluation, for each rule
\* R1..R6 the number of problems, and of suggestions, of that rule equals the
\* number of rows the rule has been applied to whose own condition holds,
\* whatever other rules fired on those rows or on other rows.
RuleIndependence ==
    \A k \in 1..6 :
        LET fired == Cardinality({i \in 1..Len(explain_plan) :
                                      k <= RulesDone(i) /\ Fires(k, explain_plan[i])})
        IN /\ CountKind(problems, ProblemPrefix, k) = fired
           /\ CountKind(suggestions, SuggestionPrefix, k) = fired

\* a row satisfying R1, R3, R4, R5 and R6 next to a row with a key and
\* "Using where" on which nothing fires
RuleIndependenceWitness ==
    /\ pc = "evaluated"
    /\ Len(explain_plan) = 2
    /\ Len(FiredOn(explain_plan[1], 6)) = 5
    /\ HasField(explain_plan[2], "key")
    /\ ExtraHas(explain_plan[2], "Using where")
    /\ Len(problems) = 6

\* C3 (join-order rule): "Potential suboptimal join order" is a problem
\* exactly once if the plan has more than one row and the first row's rows
\* value is present and above 1000, and is never a problem otherwise; it is
\* not among the problems before the per-row rules are over.
JoinOrderRule ==
    Cardinality({j \in 1..Len(problems) : problems[j] = JoinOrderProblem})
        = IF JoinOrderDone /\ JoinOrderFires THEN 1 ELSE 0

JoinOrderWitness ==
    /\ pc = "evaluated"
    /\ Len(explain_plan) = 2
    /\ problems = <<JoinOrderProblem>>
    /\ HasField(explain_plan[1], "rows")
    /\ explain_plan[1]["rows"] = Val(1001)

\* C4 (order preservation): at every point of the evaluation the problems
\* are, in order, the rules fired so far row by row in plan order and R1..R6
\* within a row, followed by the join-order entry once it has fired; each
\* suggestion sits at the position of its problem.
OrderPreservation ==
    /\ Kinds(problems, ProblemPrefix) = ExpectedKinds
    /\ Len(suggestions) >= Len(problems)
    /\ \A j \in 1..Len(problems) :
          KindOf(suggestions[j], SuggestionPrefix) = KindOf(problems[j], ProblemPrefix)

OrderWitness ==
    /\ pc = "evaluated"
    /\ Len(explain_plan) = 2
    /\ Kinds(problems, ProblemPrefix) = <<3, 4, 1, 3, 4, 5, 6>>

\* C5 (fallback rule): when analyze_performance returns, the fallback
\* suggestion is among the suggestions if and only if problems is empty, it
\* is then the only suggestion, and the empty plan yields no problem and the
\* fallback suggestion alone.
FallbackRule ==
    pc = "evaluated" =>
        /\ (\E j \in 1..Len(suggestions) :
               suggestions[j] =
                 "No obvious performance issues detected. Query appears to be well-optimized.")
             <=> problems = <<>>
        /\ problems = <<>> =>
             suggestions =
               <<"No obvious performance issues detected. Query appears to be well-optimized.">>
        /\ explain_plan = <<>> => problems = <<>>

FallbackWitness ==
    /\ pc = "evaluated"
    /\ explain_plan = <<>>
    /\ problems = <<>>
    /\ Len(suggestions) = 1

\* C9 (table fallback): every problem and suggestion a per-row rule appends
\* for a row without a table value (key missing, or value NULL) names the
\* table 'unknown'.
TableFallback ==
    [][(InRow /\ ~HasField(row, "table") /\ Len(problems') = Len(problems) + 1) =>
          /\ Contains(problems'[Len(problems')], "'unknown'")
          /\ Contains(suggestions'[Len(suggestions')], "'unknown'")]_vars

\* C10 (implicit bound): R1 and R2 never both fire on a row, so the rows
\* evaluated so far contribute at most one R1-or-R2 problem each and at most
\* five problems each, and the join-order entry adds one only for a plan of
\* more than one row.
ProblemBound ==
    /\ CountKind(problems, ProblemPrefix, 1) + CountKind(problems, ProblemPrefix, 2) <= idx
    /\ Len(problems) <= 5 * idx + (IF Len(explain_plan) > 1 THEN 1 ELSE 0)
    /\ Len(problems) <= 5 * Len(explain_plan) + 1
    /\ ~JoinOrderDone => Len(problems) <= 5 * idx

ProblemBoundWitness ==
    /\ pc = "evaluated"
    /\ Len(explain_plan) = 2
    /\ Len(problems) = 11

\* C6 (guaranteed release): once connect() has succeeded the process ends
\* only through close(), and at the end the connection is not open, whether
\* the analysis succeeded, a query failed or another error was raised.
GuaranteedRelease ==
    /\ [](pc = "exited" /\ conn # "none" => conn \in {"closed", "lost"})
    /\ [][pc' = "exited" /\ conn # "none" => pc = "finally" /\ conn' # "open"]_vars

ReleaseWitness ==
    /\ pc = "exited"
    /\ Len(issued) = 2
    /\ exc = "SystemExit"
    /\ conn = "closed"

\* C7 (fail-fast): after a connection failure no statement is issued; after a
\* failed statement no further statement is issued, no rule is evaluated and
\* no report is printed; no statement is issued twice; the exit status is 0
\* exactly when both statements succeeded and the report was printed, and 1
\* otherwise.
FailFast ==
    /\ [](/\ conn = "none" /\ pc = "exited" =>
               issued = <<>> /\ suggestions = <<>> /\ exitStatus = 1
          /\ exc \in {"Error", "SystemExit"} =>
               /\ problems = <<>> /\ suggestions = <<>> /\ idx = 0
               /\ \A j \in 1..Len(output) : output[j] # Report
          /\ Len(issued) <= 2
          /\ Len(issued) = 2 => issued[1] # issued[2]
          /\ pc = "exited" =>
               /\ exitStatus \in {0, 1}
               /\ exitStatus = 0 <=>
                    /\ Len(issued) = 2
                    /\ suggestions # <<>>
                    /\ output = <<Report>>)
    /\ [][exc # "none" =>
            /\ UNCHANGED <<issued, problems, suggestions, idx, explain_plan>>
            /\ \A j \in 1..Len(output') : output'[j] # Report]_vars

FailFastWitness ==
    /\ pc = "exited"
    /\ exitStatus = 1
    /\ issued = <<query>>
    /\ output = <<AnalysisErrorMsg>>

\* C8 (database protocol): the statements issued over the session are always
\* a prefix of <<query, "EXPLAIN " + query>>, and an analysis that reaches the
\* rule evaluation has issued exactly these two.
DatabaseProtocol ==
    /\ Len(issued) <= 2
    /\ Len(issued) >= 1 => issued[1] = query
    /\ Len(issued) = 2 => issued[2] = "EXPLAIN " \o query
    /\ (pc = "for" \/ InRow \/ pc \in {"G1", "G2", "evaluated"} \/ exitStatus = 0) =>
          Len(issued) = 2

ProtocolWitness ==
    /\ pc = "exited"
    /\ exitStatus = 0
    /\ issued = <<query, "EXPLAIN " \o query>>
====
